---------------------------- MODULE Spec2Model ----------------------------
(***************************************************************************)
(* Model of the wallet export program of                                   *)
(* src/create_credentials_with_clob_client.ts (lines 139-297): main,       *)
(* createPrivyWallet, exportWalletPrivateKey and decryptHPKEMessage; of    *)
(* the two credential flows, the two private-key normalizers and the two   *)
(* variants of placeBetWithClobClient.                                     *)
(*                                                                         *)
(* Byte strings are sequences of numbers 0..255, base64 text is a sequence *)
(* of alphabet indexes 0..63 with PAD for '=', hex text is a sequence of   *)
(* one-character strings.  The platform and library primitives the program *)
(* calls (crypto.subtle, @hpke/core, generateAuthorizationSignature) are   *)
(* modelled symbolically: a key is identified by a number, the CSPRNG      *)
(* never repeats a key, and the AEAD tag is an unforgeable function of the *)
(* shared secret and of the ciphertext body.                               *)
(***************************************************************************)
EXTENDS Integers, Sequences, FiniteSets, TLC

\* Number of export iterations main runs (the source runs 20).
iterations == 3
\* Number of distinct ephemeral sender keys the custody service may use.
ServerKeys == 2
\* Longest custody-side key material beyond the 32-byte case, in bytes.
ExtraLen == 1
\* Number of calls of exportWalletPrivateKey a concurrent caller keeps in flight.
Concurrency == 2
\* Number of byte progressions the 32-byte plaintexts to format are drawn from.
FormatSamples == 8
\* Number of 64-digit keys the inputs of the normalizers are built from.
KeySamples == 3

VARIABLES
  env,            \* process.env: the four configuration values
  mainPc,         \* position of main
  i,              \* loop counter of main
  walletId,       \* createdWallet.id
  exitCode,       \* process exit code: -1 while running
  mainError,      \* the error main().catch received
  averageReported,\* whether the average time line was printed
  network,        \* every outbound network call, in order
  keysGenerated,  \* number of keypairs the CSPRNG has produced
  calls,          \* locals of each call of exportWalletPrivateKey
  fnInput,        \* the argument of a function applied on its own
  fnOutput,       \* what that function returned or threw
  cred,           \* locals of a credential flow
  bet             \* locals of placeBetWithClobClient

vars == <<env, mainPc, i, walletId, exitCode, mainError, averageReported,
          network, keysGenerated, calls, fnInput, fnOutput, cred, bet>>

\* The variables of the export program.
exportVars == <<env, mainPc, i, walletId, exitCode, mainError, averageReported,
                network, keysGenerated, calls>>


-----------------------------------------------------------------------------
(* Text encodings *)

\* Index of '=' after the 64 alphabet characters.
PAD == 64
\* Any character outside the base64 alphabet.
BadChar == PAD + 1

HexChars ==
  <<"0","1","2","3","4","5","6","7","8","9","a","b","c","d","e","f">>

\* Hex text of the first 32 bytes only.
BufferToHexFixed(bytes) ==
  [k \in 1..(2 * (IF Len(bytes) < 32 THEN Len(bytes) ELSE 32)) |->
     LET b == bytes[(k + 1) \div 2]
     IN IF k % 2 = 1 THEN HexChars[(b \div 16) + 1] ELSE HexChars[(b % 16) + 1]]

\* Hex text in capital letters.
BufferToHexUpper(bytes) ==
  LET upper == <<"0","1","2","3","4","5","6","7","8","9","A","B","C","D","E","F">>
  IN [k \in 1..(2 * Len(bytes)) |->
        LET b == bytes[(k + 1) \div 2]
        IN IF k % 2 = 1 THEN upper[(b \div 16) + 1] ELSE upper[(b % 16) + 1]]

\* Buffer.from(bytes).toString('hex')
BufferToHex(bytes) ==
  [k \in 1..(2 * Len(bytes)) |->
     LET b == bytes[(k + 1) \div 2]
     IN IF k % 2 = 1 THEN HexChars[(b \div 16) + 1] ELSE HexChars[(b % 16) + 1]]

HexValue(ch) == (CHOOSE n \in 1..16 : HexChars[n] = ch) - 1

\* The inverse reading of a hex text, as a verifier of the result would do it.
HexToBytes(hex) ==
  [k \in 1..(Len(hex) \div 2) |->
     HexValue(hex[2 * k - 1]) * 16 + HexValue(hex[2 * k])]

\* Buffer.from(bytes).toString('base64')
BufferToBase64(bytes) ==
  LET n == Len(bytes)
      byte(idx) == IF idx <= n THEN bytes[idx] ELSE 0
  IN [k \in 1..(4 * ((n + 2) \div 3)) |->
        LET g == (k - 1) \div 4
            j == (k - 1) % 4
            a == byte(3 * g + 1)
            b == byte(3 * g + 2)
            c == byte(3 * g + 3)
        IN CASE j = 0 -> a \div 4
             [] j = 1 -> (a % 4) * 16 + (b \div 16)
             [] j = 2 -> IF 3 * g + 2 > n THEN PAD
                         ELSE (b % 16) * 4 + (c \div 64)
             [] OTHER -> IF 3 * g + 3 > n THEN PAD ELSE c % 64]

\* atob(base64) followed by c => c.charCodeAt(0): the forgiving base64
\* decoding of the platform.  ok = FALSE stands for InvalidCharacterError.
base64ToBuffer(text) ==
  LET n == Len(text)
      pads == IF n % 4 = 0 /\ n >= 2 /\ text[n] = PAD
              THEN (IF text[n - 1] = PAD THEN 2 ELSE 1)
              ELSE 0
      m == n - pads
      sx(idx) == IF idx <= m THEN text[idx] ELSE 0
  IN IF m % 4 = 1 \/ \E k \in 1..m : text[k] \notin 0..63
     THEN [ok |-> FALSE, bytes |-> <<>>]
     ELSE [ok |-> TRUE,
           bytes |-> [k \in 1..((m * 6) \div 8) |->
              LET g == (k - 1) \div 3
                  j == (k - 1) % 3
                  s1 == sx(4 * g + 1)
                  s2 == sx(4 * g + 2)
                  s3 == sx(4 * g + 3)
                  s4 == sx(4 * g + 4)
              IN CASE j = 0 -> s1 * 4 + (s2 \div 16)
                   [] j = 1 -> (s2 % 16) * 16 + (s3 \div 4)
                   [] OTHER -> (s3 % 4) * 64 + s4]]

-----------------------------------------------------------------------------
(* Platform and library cryptography, symbolically *)

\* A key pair is identified by a number 1..254; 0 and 255 are no curve point.
IsKeyId(b) == b \in 1..254

\* crypto.subtle.exportKey('spki', keypair.publicKey)
ExportSpki(k) == <<48, 89, 4, k>>

\* crypto.subtle.exportKey('pkcs8', keypair.privateKey)
ExportPkcs8(k) == <<48, 129, 135, k>>

\* crypto.subtle.importKey('pkcs8', ...): ok = FALSE stands for DataError.
ImportPkcs8(bytes) ==
  IF Len(bytes) = 4 /\ SubSeq(bytes, 1, 3) = <<48, 129, 135>> /\ IsKeyId(bytes[4])
  THEN [ok |-> TRUE, key |-> bytes[4]]
  ELSE [ok |-> FALSE, key |-> 0]

\* The custody service's reading of recipient_public_key.
ImportSpki(bytes) ==
  IF Len(bytes) = 4 /\ SubSeq(bytes, 1, 3) = <<48, 89, 4>> /\ IsKeyId(bytes[4])
  THEN [ok |-> TRUE, key |-> bytes[4]]
  ELSE [ok |-> FALSE, key |-> 0]

\* The encapsulated key: the sender's public key as an uncompressed point.
SerializePublicKey(k) == <<4, k>>

DeserializePublicKey(bytes) ==
  IF Len(bytes) = 2 /\ bytes[1] = 4 /\ IsKeyId(bytes[2])
  THEN [ok |-> TRUE, key |-> bytes[2]]
  ELSE [ok |-> FALSE, key |-> 0]

\* Diffie-Hellman: both sides derive the same secret from the two key pairs.
Dh(a, b) == IF a <= b THEN <<a, b>> ELSE <<b, a>>

KeyStream(shared, k) == (shared[1] * 7 + shared[2] * 13 + k) % 256

\* The authentication tag: an injective function of secret and body.
AeadTag(shared, body) == <<shared[1], shared[2]>> \o body

\* ChaCha20-Poly1305 seal with no associated data.
AeadSeal(shared, plain) ==
  LET body == [k \in 1..Len(plain) |-> (plain[k] + KeyStream(shared, k)) % 256]
  IN body \o AeadTag(shared, body)

\* recipient.open(ciphertext): ok = FALSE stands for OpenError.
AeadOpen(shared, ct) ==
  LET n == (Len(ct) - 2) \div 2
      body == SubSeq(ct, 1, n)
      tag == SubSeq(ct, n + 1, Len(ct))
  IN IF Len(ct) < 2 \/ Len(ct) % 2 # 0 \/ tag # AeadTag(shared, body)
     THEN [ok |-> FALSE, plain |-> <<>>]
     ELSE [ok |-> TRUE,
           plain |-> [k \in 1..n |-> (body[k] + 256 - KeyStream(shared, k)) % 256]]

\* A reference HPKE sender: seals plain to the recipient's public key.
HpkeSeal(sender, recipient, plain) ==
  [enc |-> SerializePublicKey(sender),
   ct |-> AeadSeal(Dh(sender, recipient), plain)]

\* suite.createRecipientContext({recipientKey, enc}): KEM decapsulation.
createRecipientContext(recipientKey, enc) ==
  LET pk == DeserializePublicKey(enc)
  IN IF pk.ok THEN [ok |-> TRUE, shared |-> Dh(recipientKey, pk.key)]
     ELSE [ok |-> FALSE, shared |-> <<0, 0>>]

-----------------------------------------------------------------------------
(* Errors and results *)

NoError == [name |-> "", message |-> <<>>]
Error(name, message) == [name |-> name, message |-> message]
Return(value) == [ok |-> TRUE, value |-> value, error |-> NoError]
Throw(error) == [ok |-> FALSE, value |-> <<>>, error |-> error]

\* The key written without its prefix.
FormatKeyNoPrefix(plain) == BufferToHex(plain)

\* The final formatting of decryptHPKEMessage.
FormatKey(plain) == <<"0", "x">> \o BufferToHex(plain)

\* A failed open caught, and the empty key returned.
decryptHPKEMessageCaught(privateKeyBase64, encapsulatedKeyBase64, ciphertextBase64) ==
  LET keyBuf == base64ToBuffer(privateKeyBase64)
      privateKey == ImportPkcs8(keyBuf.bytes)
      encBuf == base64ToBuffer(encapsulatedKeyBase64)
      recipient == createRecipientContext(privateKey.key, encBuf.bytes)
      ctBuf == base64ToBuffer(ciphertextBase64)
      decryptedBuffer == AeadOpen(recipient.shared, ctBuf.bytes)
  IN IF keyBuf.ok /\ privateKey.ok /\ encBuf.ok /\ recipient.ok /\ ctBuf.ok
        /\ decryptedBuffer.ok
     THEN Return(FormatKey(decryptedBuffer.plain))
     ELSE Return(FormatKey(<<>>))

decryptHPKEMessage(privateKeyBase64, encapsulatedKeyBase64, ciphertextBase64) ==
  LET keyBuf == base64ToBuffer(privateKeyBase64)
      privateKey == ImportPkcs8(keyBuf.bytes)
      encBuf == base64ToBuffer(encapsulatedKeyBase64)
      recipient == createRecipientContext(privateKey.key, encBuf.bytes)
      ctBuf == base64ToBuffer(ciphertextBase64)
      decryptedBuffer == AeadOpen(recipient.shared, ctBuf.bytes)
  IN IF ~keyBuf.ok THEN Throw(Error("InvalidCharacterError", <<"atob">>))
     ELSE IF ~privateKey.ok THEN Throw(Error("DataError", <<"importKey">>))
     ELSE IF ~encBuf.ok THEN Throw(Error("InvalidCharacterError", <<"atob">>))
     ELSE IF ~recipient.ok
       THEN Throw(Error("DeserializeError", <<"createRecipientContext">>))
     ELSE IF ~ctBuf.ok THEN Throw(Error("InvalidCharacterError", <<"atob">>))
     ELSE IF ~decryptedBuffer.ok THEN Throw(Error("OpenError", <<"open">>))
     ELSE Return(FormatKey(decryptedBuffer.plain))

-----------------------------------------------------------------------------
(* Configuration and the custody service *)

Undefined == "<undefined>"
EnvNames == {"PRIVY_APP_ID", "PRIVY_APP_SECRET",
             "PRIVY_AUTHORIZATION_PUBLIC_KEY", "PRIVY_AUTHORIZATION_PRIVATE_KEY"}
EnvValue(name) ==
  CASE name = "PRIVY_APP_ID" -> "app-id"
    [] name = "PRIVY_APP_SECRET" -> "app-secret"
    [] name = "PRIVY_AUTHORIZATION_PUBLIC_KEY" -> "auth-public-key"
    [] OTHER -> "auth-private-key"
Environments ==
  {e \in [EnvNames -> {Undefined, ""} \cup {EnvValue(n) : n \in EnvNames}] :
     \A n \in EnvNames : e[n] \in {Undefined, "", EnvValue(n)}}
FullEnv == [n \in EnvNames |-> EnvValue(n)]

\* JavaScript's !value for a string or undefined.
Falsy(v) == v = Undefined \/ v = ""

WalletIds == {"w_123", "w_456"}
Calls == 1..iterations
ServerKeyIds == 101..(100 + ServerKeys)

\* Key material the custody service may hold: around 32 bytes, and very short.
Lengths == (0..ExtraLen) \cup ((32 - ExtraLen)..(32 + ExtraLen))
KeyMaterials ==
  {[k \in 1..n |-> 0] : n \in Lengths}
    \cup {[k \in 1..n |-> (k * 37 + 11) % 256] : n \in Lengths}

RejectStatuses == {401, 500}
RejectBodies == {"", "{\"error\":\"Unauthorized\"}"}
Flips == {1, 128}
FlipByte(bytes, p, d) == [bytes EXCEPT ![p] = (@ + d) % 256]

\* atob(undefined) reads the nine letters of "undefined".
UndefinedText == <<46, 39, 29, 30, 31, 34, 39, 30, 29>>

\* JSON.stringify of an object given as its key/value pairs in order.
JSONstringify(obj) ==
  [k \in 1..(4 * Len(obj) + 1) |->
     IF k = 1 THEN "{"
     ELSE LET pair == obj[(k + 2) \div 4]
              j == (k - 2) % 4
          IN CASE j = 0 -> pair[1]
               [] j = 1 -> ":"
               [] j = 2 -> pair[2]
               [] OTHER -> IF k = 4 * Len(obj) + 1 THEN "}" ELSE ","]

\* The receiver's reading of such a text.
JSONparse(text) ==
  [k \in 1..((Len(text) - 1) \div 4) |-> <<text[4 * k - 2], text[4 * k]>>]

JSONField(obj, key) == obj[CHOOSE k \in 1..Len(obj) : obj[k][1] = key][2]

NoJson == [parses |-> FALSE, encapsulated_key |-> <<>>, ciphertext |-> <<>>]
NoResponse == [status |-> 0, text |-> "", json |-> NoJson]
NoSealing == [sealed |-> FALSE, plain |-> <<>>, sender |-> 0, recipient |-> 0,
              enc |-> <<>>, ct |-> <<>>]

Sealing(sender, recipient, plain) ==
  LET m == HpkeSeal(sender, recipient, plain)
  IN [sealed |-> TRUE, plain |-> plain, sender |-> sender,
      recipient |-> recipient, enc |-> m.enc, ct |-> m.ct]

ExportResponse(enc, ct) ==
  [status |-> 200, text |-> "<export>",
   json |-> [parses |-> TRUE, encapsulated_key |-> BufferToBase64(enc),
             ciphertext |-> BufferToBase64(ct)]]

\* The recipient key the custody service reads in a request body.
RecipientOf(request) ==
  LET body == JSONparse(request.body)
  IN IF Len(body) = 2 /\ body[2][1] = "recipient_public_key"
     THEN ImportSpki(base64ToBuffer(body[2][2]).bytes)
     ELSE [ok |-> FALSE, key |-> 0]

Rejections ==
  {[response |-> [status |-> s, text |-> t, json |-> NoJson], custody |-> NoSealing] :
     s \in RejectStatuses, t \in RejectBodies}

\* What a mocked custody service answers: one known pair, or a refusal.
FixtureResponses(request) ==
  LET r == RecipientOf(request)
      s == Sealing(101, r.key, [k \in 1..32 |-> (k * 37 + 11) % 256])
  IN {[response |-> [status |-> 401, text |-> "{\"error\":\"Unauthorized\"}",
                     json |-> NoJson],
       custody |-> NoSealing]}
       \cup (IF r.ok THEN {[response |-> ExportResponse(s.enc, s.ct), custody |-> s]}
             ELSE {})

\* Everything the custody service, or the network in between, may answer.
CustodyResponses(request) ==
  LET r == RecipientOf(request)
      sealings == IF r.ok
                  THEN {Sealing(e, r.key, m) : e \in ServerKeyIds, m \in KeyMaterials}
                  ELSE {}
  IN Rejections
       \cup {[response |-> ExportResponse(s.enc, s.ct), custody |-> s] : s \in sealings}
       \cup UNION {{[response |-> ExportResponse(FlipByte(s.enc, p, d), s.ct),
                     custody |-> s] : p \in 1..Len(s.enc), d \in Flips} : s \in sealings}
       \cup UNION {{[response |-> ExportResponse(s.enc, FlipByte(s.ct, p, d)),
                     custody |-> s] : p \in 1..Len(s.ct), d \in Flips} : s \in sealings}
       \cup {[response |-> [status |-> 200, text |-> "<html>", json |-> NoJson],
              custody |-> NoSealing],
             [response |-> [status |-> 200, text |-> "{}",
                            json |-> [parses |-> TRUE,
                                      encapsulated_key |-> UndefinedText,
                                      ciphertext |-> UndefinedText]],
              custody |-> NoSealing]}

-----------------------------------------------------------------------------
(* exportWalletPrivateKey *)

NoSignatureInput ==
  [headers |-> ("privy-app-id" :> ""), method |-> "", url |-> <<>>,
   version |-> 0, body |-> <<>>]
NoSignature == [signed |-> NoSignatureInput, by |-> ""]
NoArgs == [privyAppId |-> "", privyAppSecret |-> "", walletId |-> "",
           authorizationPrivateKey |-> ""]
NoResult == [ok |-> FALSE, value |-> <<>>, error |-> NoError]

IdleCall ==
  [pc |-> "idle", args |-> NoArgs,
   recipientPublicKeyBase64 |-> <<>>, recipientPrivateKeyBase64 |-> <<>>,
   signatureInput |-> NoSignatureInput, signature |-> NoSignature,
   response |-> NoResponse, custody |-> NoSealing, decryptedWith |-> <<>>,
   result |-> NoResult, trace |-> <<>>, decryptions |-> 0]

Pipeline == <<"keypair", "signature", "request", "response", "decryption">>

\* The entry of a call: its arguments are bound, nothing else is.
Invoke(c, appId, appSecret, wallet, authKey) ==
  calls' = [calls EXCEPT ![c] =
     [IdleCall EXCEPT !.pc = "start",
        !.args = [privyAppId |-> appId, privyAppSecret |-> appSecret,
                  walletId |-> wallet, authorizationPrivateKey |-> authKey]]]

Fail(c, error) ==
  calls' = [calls EXCEPT ![c].pc = "failed", ![c].result = Throw(error)]

\* A key pair made once and kept for every call.
generateKeyCached(generated) == 1

\* crypto.subtle.generateKey: the key pair the CSPRNG yields next.
generateKey(generated) == generated + 1

GenerateKeyPair(c) ==
  /\ calls[c].pc = "start"
  /\ LET keypair == generateKey(keysGenerated)
     IN /\ keysGenerated' = keysGenerated + 1
        /\ calls' = [calls EXCEPT
             ![c].pc = "keypair",
             ![c].recipientPublicKeyBase64 = BufferToBase64(ExportSpki(keypair)),
             ![c].recipientPrivateKeyBase64 = BufferToBase64(ExportPkcs8(keypair)),
             ![c].trace = Append(@, "keypair")]
  /\ UNCHANGED <<fnInput, fnOutput, cred, bet, env, mainPc, i, walletId, exitCode, mainError, averageReported,
                 network>>

KeyGenFails(c) ==
  /\ calls[c].pc = "start"
  /\ Fail(c, Error("OperationError", <<"generateKey">>))
  /\ UNCHANGED <<fnInput, fnOutput, cred, bet, env, mainPc, i, walletId, exitCode, mainError, averageReported,
                 network, keysGenerated>>

SignatureUrl(wallet) == <<"https://auth.privy.io/v1/wallets/", wallet, "/export">>

\* The signature input with the two exported keys taken in the other order.
SignatureInputSwapped(call) ==
  [headers |-> ("privy-app-id" :> call.args.privyAppId),
   method |-> "POST",
   url |-> SignatureUrl(call.args.walletId),
   version |-> 1,
   body |-> << <<"encryption_type", "HPKE">>,
               <<"recipient_public_key", call.recipientPrivateKeyBase64>> >>]

SignatureInput(call) ==
  [headers |-> ("privy-app-id" :> call.args.privyAppId),
   method |-> "POST",
   url |-> SignatureUrl(call.args.walletId),
   version |-> 1,
   body |-> << <<"encryption_type", "HPKE">>,
               <<"recipient_public_key", call.recipientPublicKeyBase64>> >>]

\* generateAuthorizationSignature({input, authorizationPrivateKey})
generateAuthorizationSignature(input, key) == [signed |-> input, by |-> key]

\* Signing started without waiting for the key pair.
CreateSignatureEarly(c) ==
  /\ calls[c].pc \in {"start", "keypair"}
  /\ LET input == SignatureInput(calls[c])
     IN calls' = [calls EXCEPT
          ![c].pc = "signature",
          ![c].signatureInput = input,
          ![c].signature =
             generateAuthorizationSignature(input, calls[c].args.authorizationPrivateKey),
          ![c].trace = Append(@, "signature")]
  /\ UNCHANGED <<fnInput, fnOutput, cred, bet, env, mainPc, i, walletId, exitCode, mainError, averageReported,
                 network, keysGenerated>>

CreateSignature(c) ==
  /\ calls[c].pc = "keypair"
  /\ LET input == SignatureInput(calls[c])
     IN calls' = [calls EXCEPT
          ![c].pc = "signature",
          ![c].signatureInput = input,
          ![c].signature =
             generateAuthorizationSignature(input, calls[c].args.authorizationPrivateKey),
          ![c].trace = Append(@, "signature")]
  /\ UNCHANGED <<fnInput, fnOutput, cred, bet, env, mainPc, i, walletId, exitCode, mainError, averageReported,
                 network, keysGenerated>>

\* The signer throws, or yields nothing and line 222 throws.
SignatureFails(c) ==
  /\ calls[c].pc = "keypair"
  /\ \/ Fail(c, Error("Error", <<"generateAuthorizationSignature">>))
     \/ Fail(c, Error("Error", <<"Signature is undefined. Cannot proceed.">>))
  /\ UNCHANGED <<fnInput, fnOutput, cred, bet, env, mainPc, i, walletId, exitCode, mainError, averageReported,
                 network, keysGenerated>>

\* The request sent to another host than the one signed.
FetchUrlOtherHost(wallet) == <<"https://api.privy.io/v1/wallets/", wallet, "/export">>

FetchUrl(wallet) == <<"https://auth.privy.io/v1/wallets/", wallet, "/export">>

BasicAuth(appId, appSecret) == <<"Basic", [base64 |-> <<appId, ":", appSecret>>]>>

FetchRequest(call) ==
  [url |-> FetchUrl(call.args.walletId),
   method |-> call.signatureInput.method,
   headers |-> [h \in {"privy-app-id", "Content-Type",
                       "privy-authorization-signature", "Authorization"} |->
      CASE h = "privy-app-id" -> call.args.privyAppId
        [] h = "Content-Type" -> "application/json"
        [] h = "privy-authorization-signature" -> call.signature
        [] OTHER -> BasicAuth(call.args.privyAppId, call.args.privyAppSecret)],
   body |-> JSONstringify(call.signatureInput.body)]

SendExportRequest(c) ==
  /\ calls[c].pc = "signature"
  /\ network' = Append(network, [op |-> "export", call |-> c,
                                 request |-> FetchRequest(calls[c])])
  /\ calls' = [calls EXCEPT ![c].pc = "request", ![c].trace = Append(@, "request")]
  /\ UNCHANGED <<fnInput, fnOutput, cred, bet, env, mainPc, i, walletId, exitCode, mainError, averageReported,
                 keysGenerated>>

\* The request a call has in flight: the last one it sent.
SentBy(c) ==
  LET k == CHOOSE k \in DOMAIN network :
             /\ network[k].op = "export" /\ network[k].call = c
             /\ \A j \in DOMAIN network :
                  (network[j].op = "export" /\ network[j].call = c) => j <= k
  IN network[k].request

ReceiveFrom(c, answers) ==
  /\ calls[c].pc = "request"
  /\ \E a \in answers :
       calls' = [calls EXCEPT ![c].pc = "response",
                              ![c].response = a.response,
                              ![c].custody = a.custody,
                              ![c].trace = Append(@, "response")]
  /\ UNCHANGED <<fnInput, fnOutput, cred, bet, env, mainPc, i, walletId, exitCode, mainError, averageReported,
                 network, keysGenerated>>

ReceiveResponse(c) == ReceiveFrom(c, CustodyResponses(SentBy(c)))

ReceiveFixture(c) == ReceiveFrom(c, FixtureResponses(SentBy(c)))

\* fetch rejects: no response at all.
FetchFails(c) ==
  /\ calls[c].pc = "request"
  /\ Fail(c, Error("TypeError", <<"fetch failed">>))
  /\ UNCHANGED <<fnInput, fnOutput, cred, bet, env, mainPc, i, walletId, exitCode, mainError, averageReported,
                 network, keysGenerated>>

ResponseOk(response) == response.status \in 200..299

\* The rejection reported without the body.
RejectionErrorNoBody(response) == Error("Error", <<"Failed to export wallet">>)

RejectionError(response) ==
  Error("Error", <<"Failed to export wallet: ", response.text>>)

\* A rejected request sent again.
RetryRejected(c) ==
  /\ calls[c].pc = "response"
  /\ ~ResponseOk(calls[c].response)
  /\ calls' = [calls EXCEPT ![c].pc = "signature"]
  /\ UNCHANGED <<fnInput, fnOutput, cred, bet, env, mainPc, i, walletId, exitCode, mainError, averageReported,
                 network, keysGenerated>>

RejectResponse(c) ==
  /\ calls[c].pc = "response"
  /\ ~ResponseOk(calls[c].response)
  /\ Fail(c, RejectionError(calls[c].response))
  /\ UNCHANGED <<fnInput, fnOutput, cred, bet, env, mainPc, i, walletId, exitCode, mainError, averageReported,
                 network, keysGenerated>>

\* response.json() of a body that is no JSON.
ParseFails(c) ==
  /\ calls[c].pc = "response"
  /\ ResponseOk(calls[c].response)
  /\ ~calls[c].response.json.parses
  /\ Fail(c, Error("SyntaxError", <<"response.json">>))
  /\ UNCHANGED <<fnInput, fnOutput, cred, bet, env, mainPc, i, walletId, exitCode, mainError, averageReported,
                 network, keysGenerated>>

Decrypt(c) ==
  /\ calls[c].pc = "response"
  /\ ResponseOk(calls[c].response)
  /\ calls[c].response.json.parses
  /\ LET exportData == calls[c].response.json
         decryptedPrivateKey ==
           decryptHPKEMessage(calls[c].recipientPrivateKeyBase64,
                              exportData.encapsulated_key, exportData.ciphertext)
     IN calls' = [calls EXCEPT
          ![c].pc = IF decryptedPrivateKey.ok THEN "returned" ELSE "failed",
          ![c].result = decryptedPrivateKey,
          ![c].decryptedWith = calls[c].recipientPrivateKeyBase64,
          ![c].decryptions = @ + 1,
          ![c].trace = Append(@, "decryption")]
  /\ UNCHANGED <<fnInput, fnOutput, cred, bet, env, mainPc, i, walletId, exitCode, mainError, averageReported,
                 network, keysGenerated>>

-----------------------------------------------------------------------------
(* main *)

\* The test without the authorization public key.
ConfigMissingThree(e) ==
  \/ Falsy(e["PRIVY_APP_ID"])
  \/ Falsy(e["PRIVY_APP_SECRET"])
  \/ Falsy(e["PRIVY_AUTHORIZATION_PRIVATE_KEY"])

\* The test of line 262.
ConfigMissing(e) ==
  \/ Falsy(e["PRIVY_APP_ID"])
  \/ Falsy(e["PRIVY_APP_SECRET"])
  \/ Falsy(e["PRIVY_AUTHORIZATION_PUBLIC_KEY"])
  \/ Falsy(e["PRIVY_AUTHORIZATION_PRIVATE_KEY"])

\* main().catch: the error is printed and the process exits with code 1.
Exit1(error) ==
  /\ mainPc' = "exited"
  /\ exitCode' = 1
  /\ mainError' = error

MainConfigError ==
  /\ mainPc = "start"
  /\ ConfigMissing(env)
  /\ Exit1(Error("Error", <<"Missing required environment variables">>))
  /\ UNCHANGED <<fnInput, fnOutput, cred, bet, env, i, walletId, averageReported, network, keysGenerated, calls>>

\* new PrivyClient(...) and the request of createPrivyWallet.
MainCreateWallet ==
  /\ mainPc = "start"
  /\ ~ConfigMissing(env)
  /\ mainPc' = "createWallet"
  /\ network' = Append(network,
       [op |-> "createWallet", call |-> 0,
        request |-> [chainType |-> "solana",
                     owner |-> env["PRIVY_AUTHORIZATION_PUBLIC_KEY"]]])
  /\ UNCHANGED <<fnInput, fnOutput, cred, bet, env, i, walletId, exitCode, mainError, averageReported,
                 keysGenerated, calls>>

WalletCreated ==
  /\ mainPc = "createWallet"
  /\ \E id \in WalletIds : walletId' = id
  /\ mainPc' = "loop"
  /\ UNCHANGED <<fnInput, fnOutput, cred, bet, env, i, exitCode, mainError, averageReported, network,
                 keysGenerated, calls>>

WalletCreateFails ==
  /\ mainPc = "createWallet"
  /\ Exit1(Error("Error", <<"createWallet">>))
  /\ UNCHANGED <<fnInput, fnOutput, cred, bet, env, i, walletId, averageReported, network, keysGenerated, calls>>

StartExport ==
  /\ mainPc = "loop"
  /\ i < iterations
  /\ Invoke(i + 1, env["PRIVY_APP_ID"], env["PRIVY_APP_SECRET"], walletId,
            env["PRIVY_AUTHORIZATION_PRIVATE_KEY"])
  /\ mainPc' = "export"
  /\ UNCHANGED <<fnInput, fnOutput, cred, bet, env, i, walletId, exitCode, mainError, averageReported, network,
                 keysGenerated>>

\* What is left of a call once its caller has taken the outcome: the response
\* and the decrypted key were locals of the call, and main keeps neither.
Forget(call) ==
  [call EXCEPT !.pc = IF call.pc = "returned" THEN "done" ELSE "thrown",
               !.response = NoResponse, !.custody = NoSealing,
               !.result = IF call.result.ok THEN NoResult ELSE @]

ExportReturns ==
  /\ mainPc = "export"
  /\ calls[i + 1].pc = "returned"
  /\ calls' = [calls EXCEPT ![i + 1] = Forget(@)]
  /\ i' = i + 1
  /\ mainPc' = "loop"
  /\ UNCHANGED <<fnInput, fnOutput, cred, bet, env, walletId, exitCode, mainError, averageReported, network,
                 keysGenerated>>

\* The error of an export caught in the loop, which goes on.
ExportThrowsCaught ==
  /\ mainPc = "export"
  /\ calls[i + 1].pc = "failed"
  /\ calls' = [calls EXCEPT ![i + 1] = Forget(@)]
  /\ i' = i + 1
  /\ mainPc' = "loop"
  /\ UNCHANGED <<fnInput, fnOutput, cred, bet, env, walletId, exitCode, mainError, averageReported, network,
                 keysGenerated>>

ExportThrows ==
  /\ mainPc = "export"
  /\ calls[i + 1].pc = "failed"
  /\ calls' = [calls EXCEPT ![i + 1] = Forget(@)]
  /\ Exit1(calls[i + 1].result.error)
  /\ UNCHANGED <<fnInput, fnOutput, cred, bet, env, i, walletId, averageReported, network, keysGenerated>>

ReportAverage ==
  /\ mainPc = "loop"
  /\ i >= iterations
  /\ averageReported' = TRUE
  /\ mainPc' = "finished"
  /\ exitCode' = 0
  /\ UNCHANGED <<fnInput, fnOutput, cred, bet, env, i, walletId, mainError, network, keysGenerated, calls>>

-----------------------------------------------------------------------------
(* The program *)

Init ==
  /\ env \in Environments
  /\ mainPc = "start"
  /\ i = 0
  /\ walletId = Undefined
  /\ exitCode = -1
  /\ mainError = NoError
  /\ averageReported = FALSE
  /\ network = <<>>
  /\ keysGenerated = 0
  /\ calls = [c \in Calls |-> IdleCall]
  /\ fnInput = <<>>
  /\ fnOutput = <<>>
  /\ cred = <<>>
  /\ bet = <<>>

Export(c) ==
  \/ GenerateKeyPair(c)
  \/ KeyGenFails(c)
  \/ CreateSignature(c)
  \/ SignatureFails(c)
  \/ SendExportRequest(c)
  \/ ReceiveResponse(c)
  \/ FetchFails(c)
  \/ RejectResponse(c)
  \/ ParseFails(c)
  \/ Decrypt(c)

Next ==
  \/ MainConfigError
  \/ MainCreateWallet
  \/ WalletCreated
  \/ WalletCreateFails
  \/ StartExport
  \/ ExportReturns
  \/ ExportThrows
  \/ ReportAverage
  \/ \E c \in Calls : Export(c)

Spec == Init /\ [][Next]_vars

(* Several calls of exportWalletPrivateKey in flight at once, as a caller   *)
(* other than main may run them, against a mocked custody service.          *)

ConcurrentInit ==
  /\ env = FullEnv
  /\ mainPc = "concurrent"
  /\ i = 0
  /\ walletId \in WalletIds
  /\ exitCode = -1
  /\ mainError = NoError
  /\ averageReported = FALSE
  /\ network = <<>>
  /\ keysGenerated = 0
  /\ calls = [c \in Calls |-> IdleCall]
  /\ fnInput = <<>>
  /\ fnOutput = <<>>
  /\ cred = <<>>
  /\ bet = <<>>

ConcurrentInvoke(c) ==
  /\ calls[c].pc = "idle"
  /\ Invoke(c, env["PRIVY_APP_ID"], env["PRIVY_APP_SECRET"], walletId,
            env["PRIVY_AUTHORIZATION_PRIVATE_KEY"])
  /\ UNCHANGED <<fnInput, fnOutput, cred, bet, env, mainPc, i, walletId, exitCode, mainError, averageReported,
                 network, keysGenerated>>

ConcurrentSettle(c) ==
  /\ calls[c].pc \in {"returned", "failed"}
  /\ calls' = [calls EXCEPT ![c] = Forget(@)]
  /\ UNCHANGED <<fnInput, fnOutput, cred, bet, env, mainPc, i, walletId, exitCode, mainError, averageReported,
                 network, keysGenerated>>

ConcurrentExport(c) ==
  \/ ConcurrentInvoke(c)
  \/ GenerateKeyPair(c)
  \/ KeyGenFails(c)
  \/ CreateSignature(c)
  \/ SignatureFails(c)
  \/ SendExportRequest(c)
  \/ ReceiveFixture(c)
  \/ FetchFails(c)
  \/ RejectResponse(c)
  \/ Decrypt(c)
  \/ ConcurrentSettle(c)

ConcurrentNext == \E c \in 1..Concurrency : ConcurrentExport(c)

SpecConcurrent == ConcurrentInit /\ [][ConcurrentNext]_vars

-----------------------------------------------------------------------------
(* Properties *)

IsPrefix(s, t) == Len(s) <= Len(t) /\ SubSeq(t, 1, Len(s)) = s
Did(c, step) == \E k \in DOMAIN calls[c].trace : calls[c].trace[k] = step
Times(c, step) == Cardinality({k \in DOMAIN calls[c].trace : calls[c].trace[k] = step})
Succeeded(c) == calls[c].pc \in {"returned", "done"}
Failed(c) == calls[c].pc \in {"failed", "thrown"}
RequestsOf(c) ==
  {k \in DOMAIN network : network[k].op = "export" /\ network[k].call = c}
RecipientKeyIn(request) == JSONField(JSONparse(request.body), "recipient_public_key")
Carries(error, part) == \E k \in DOMAIN error.message : error.message[k] = part
DiffersInOneByte(a, b) ==
  Len(a) = Len(b) /\ Cardinality({k \in DOMAIN a : a[k] # b[k]}) = 1

\* The bytes a call received, as the custody service would compare them.
ReceivedEnc(c) == base64ToBuffer(calls[c].response.json.encapsulated_key).bytes
ReceivedCt(c) == base64ToBuffer(calls[c].response.json.ciphertext).bytes
Decrypted(c) == calls[c].decryptions = 1 /\ calls[c].custody.sealed
Untouched(c) ==
  ReceivedEnc(c) = calls[c].custody.enc /\ ReceivedCt(c) = calls[c].custody.ct
OneByteFlipped(c) ==
  \/ /\ DiffersInOneByte(ReceivedEnc(c), calls[c].custody.enc)
     /\ ReceivedCt(c) = calls[c].custody.ct
  \/ /\ ReceivedEnc(c) = calls[c].custody.enc
     /\ DiffersInOneByte(ReceivedCt(c), calls[c].custody.ct)

\* C1: within every call the steps performed are an initial part of the
\* order keypair, signature, request, response, decryption; the signature
\* covers the key pair generated before it; a call that returns has
\* performed every step.
C1_StepsInOrder ==
  \A c \in Calls :
    /\ IsPrefix(calls[c].trace, Pipeline)
    /\ Did(c, "signature") =>
         /\ Len(calls[c].recipientPublicKeyBase64) > 0
         /\ JSONField(calls[c].signatureInput.body, "recipient_public_key")
              = calls[c].recipientPublicKeyBase64
    /\ Succeeded(c) => calls[c].trace = Pipeline

C1_Witness ==
  \E c \in Calls : calls[c].pc = "returned" /\ calls[c].trace = Pipeline

\* C2: every call that is past key generation has had a key pair of its own
\* from the generator; any two calls' requests carry different recipient
\* public keys and different signatures; and a call decrypts with the
\* private key it generated, which is no other call's.
C2_KeyPairsNeverShared ==
  /\ keysGenerated = Cardinality({c \in Calls : Did(c, "keypair")})
  /\ \A c, d \in Calls :
       (c # d /\ Did(c, "keypair") /\ Did(d, "keypair")) =>
         /\ calls[c].recipientPublicKeyBase64 # calls[d].recipientPublicKeyBase64
         /\ calls[c].recipientPrivateKeyBase64 # calls[d].recipientPrivateKeyBase64
  /\ \A j, k \in DOMAIN network :
       (j # k /\ network[j].op = "export" /\ network[k].op = "export") =>
         /\ RecipientKeyIn(network[j].request) # RecipientKeyIn(network[k].request)
         /\ network[j].request.headers["privy-authorization-signature"]
              # network[k].request.headers["privy-authorization-signature"]
  /\ \A c \in Calls :
       calls[c].decryptions > 0 =>
         /\ calls[c].decryptedWith = calls[c].recipientPrivateKeyBase64
         /\ ImportPkcs8(base64ToBuffer(calls[c].decryptedWith).bytes).key
              = ImportSpki(base64ToBuffer(calls[c].recipientPublicKeyBase64).bytes).key

C2_Witness ==
  \E c, d \in Calls :
    /\ c # d
    /\ calls[c].pc = "request"
    /\ calls[d].pc = "returned"
    /\ RequestsOf(c) # {} /\ RequestsOf(d) # {}

\* C3: in every export request sent, the method, the URL, the application
\* id header and the body are those of the signature input the signature in
\* its header was computed over, the body being the JSON text of exactly
\* encryption_type and recipient_public_key, and the call's descriptor is
\* still the one signed.
C3_SentIsSigned ==
  \A k \in DOMAIN network :
    network[k].op = "export" =>
      LET r == network[k].request
          s == r.headers["privy-authorization-signature"].signed
      IN /\ r.method = s.method
         /\ r.url = s.url
         /\ r.headers["privy-app-id"] = s.headers["privy-app-id"]
         /\ r.body = JSONstringify(s.body)
         /\ JSONparse(r.body) = s.body
         /\ Len(s.body) = 2
         /\ s.body[1] = <<"encryption_type", "HPKE">>
         /\ s.body[2][1] = "recipient_public_key"
         /\ calls[network[k].call].signatureInput = s

C3_Witness ==
  \E k \in DOMAIN network :
    /\ network[k].op = "export"
    /\ network[k].request.method = "POST"
    /\ network[k].request.url[2] = "w_123"

Rejected(c) ==
  /\ calls[c].response.status # 0
  /\ ~ResponseOk(calls[c].response)
  /\ calls[c].pc = "failed"

C5_NoNetworkOnMisconfiguration ==
  (\E n \in EnvNames : Falsy(env[n])) =>
    /\ network = <<>>
    /\ mainPc \in {"start", "exited"}
    /\ \A c \in Calls : calls[c].pc = "idle"
    /\ mainPc = "exited" =>
         /\ exitCode = 1
         /\ mainError = Error("Error", <<"Missing required environment variables">>)

C5_Witness ==
  /\ Cardinality({n \in EnvNames : Falsy(env[n])}) = 1
  /\ Falsy(env["PRIVY_AUTHORIZATION_PUBLIC_KEY"])
  /\ mainPc = "exited"
  /\ network = <<>>

\* C6: a call sends at most one export request and attempts at most one
\* decryption, whatever happens to it: no step is ever performed twice.
C6_NoRetry ==
  \A c \in Calls :
    /\ Cardinality(RequestsOf(c)) <= 1
    /\ calls[c].decryptions <= 1
    /\ \A step \in {Pipeline[k] : k \in DOMAIN Pipeline} : Times(c, step) <= 1
    /\ Cardinality(RequestsOf(c)) = Times(c, "request")
    /\ calls[c].decryptions = Times(c, "decryption")

C6_Witness ==
  \E c, d \in Calls :
    /\ calls[c].pc = "thrown"
    /\ calls[c].result.error.name = "OpenError"
    /\ Cardinality(RequestsOf(c)) = 1
    /\ calls[c].decryptions = 1
    /\ calls[d].pc = "done"

\* C7: once a call of exportWalletPrivateKey has failed, it holds an error,
\* no later iteration has started or starts, the average is not reported,
\* and main is still awaiting the call or has exited with code 1 and that
\* very error; a call returns only after a decryption that succeeded.
C7_ErrorsSurface ==
  \A c \in Calls :
    /\ Failed(c) =>
         /\ ~calls[c].result.ok
         /\ calls[c].result.error # NoError
         /\ \A d \in Calls : d > c => calls[d].pc = "idle"
         /\ i = c - 1
         /\ ~averageReported
         /\ exitCode # 0
         /\ mainPc = (IF calls[c].pc = "failed" THEN "export" ELSE "exited")
         /\ mainPc = "exited" =>
              exitCode = 1 /\ mainError = calls[c].result.error
    /\ calls[c].pc = "returned" =>
         /\ calls[c].result.ok
         /\ ResponseOk(calls[c].response)
         /\ decryptHPKEMessage(calls[c].recipientPrivateKeyBase64,
                               calls[c].response.json.encapsulated_key,
                               calls[c].response.json.ciphertext).ok

C7_Witness ==
  \E c \in Calls :
    /\ c > 1
    /\ calls[c].pc = "thrown"
    /\ calls[c].result.error.name = "OpenError"
    /\ mainPc = "exited"
    /\ exitCode = 1

\* C8: when the encapsulated key or the ciphertext a call received differs
\* in exactly one byte from what the custody service sealed for the call's
\* key, the decryption fails: the call fails with an error and no hex text.
C8_AllOrNothing ==
  \A c \in Calls :
    (Decrypted(c) /\ OneByteFlipped(c)) =>
      /\ calls[c].pc = "failed"
      /\ ~calls[c].result.ok
      /\ calls[c].result.value = <<>>
      /\ calls[c].result.error.name \in {"OpenError", "DeserializeError"}

C8_Witness ==
  \E c \in Calls :
    /\ Decrypted(c)
    /\ DiffersInOneByte(ReceivedCt(c), calls[c].custody.ct)
    /\ Len(calls[c].custody.plain) = 32
    /\ calls[c].result.error.name = "OpenError"

\* C9: when a call received exactly the encapsulated key and ciphertext a
\* reference sender sealed to the call's public key, the decryption returns
\* 0x followed by the lowercase hex text of the plaintext, which reads back
\* as exactly the plaintext bytes.
C9_RoundTrip ==
  \A c \in Calls :
    (Decrypted(c) /\ Untouched(c)) =>
      /\ calls[c].custody.recipient
           = ImportPkcs8(base64ToBuffer(calls[c].recipientPrivateKeyBase64).bytes).key
      /\ calls[c].pc = "returned"
      /\ calls[c].result.ok
      /\ Len(calls[c].result.value) >= 2
      /\ SubSeq(calls[c].result.value, 1, 2) = <<"0", "x">>
      /\ HexToBytes(SubSeq(calls[c].result.value, 3, Len(calls[c].result.value)))
           = calls[c].custody.plain

C9_Witness ==
  \E c \in Calls :
    /\ Decrypted(c) /\ Untouched(c)
    /\ Len(calls[c].custody.plain) = 32
    /\ calls[c].custody.plain[1] = 48
    /\ calls[c].result.ok

-----------------------------------------------------------------------------
(* The formatting step of decryptHPKEMessage, applied on its own *)

\* The export program at rest.
ExportIdle ==
  /\ env = FullEnv
  /\ mainPc = "off"
  /\ i = 0
  /\ walletId = Undefined
  /\ exitCode = -1
  /\ mainError = NoError
  /\ averageReported = FALSE
  /\ network = <<>>
  /\ keysGenerated = 0
  /\ calls = [c \in Calls |-> IdleCall]

\* 32-byte plaintexts: arithmetic progressions of bytes from chosen starts.
Plaintexts32 ==
  {[k \in 1..32 |-> (a * k + b) % 256] : a \in 0..(FormatSamples - 1), 
     b \in {0, 9, 15, 16, 160, 171, 240, 255}}

FormatInit ==
  /\ ExportIdle
  /\ fnInput \in Plaintexts32
  /\ fnOutput = [done |-> FALSE, value |-> <<>>]
  /\ cred = <<>>
  /\ bet = <<>>

\* Lines 183-184 on a decrypted buffer.
FormatDecrypted ==
  /\ ~fnOutput.done
  /\ fnOutput' = [done |-> TRUE, value |-> FormatKey(fnInput)]
  /\ UNCHANGED <<exportVars, fnInput, cred, bet>>

FormatNext == FormatDecrypted

SpecFormat == FormatInit /\ [][FormatNext]_vars

LowerHexDigits ==
  {"0", "1", "2", "3", "4", "5", "6", "7", "8", "9", "a", "b", "c", "d", "e", "f"}

\* C11: the text formatted from a 32-byte plaintext has exactly 66
\* characters: 0x, then 64 characters that are lowercase hexadecimal digits,
\* each pair of which is the value of the byte at that place.
C11_SixtySixCharacters ==
  fnOutput.done =>
    /\ Len(fnInput) = 32
    /\ Len(fnOutput.value) = 66
    /\ fnOutput.value[1] = "0"
    /\ fnOutput.value[2] = "x"
    /\ \A k \in 3..66 : fnOutput.value[k] \in LowerHexDigits
    /\ \A k \in 1..32 :
         HexValue(fnOutput.value[2 * k + 1]) * 16 + HexValue(fnOutput.value[2 * k + 2])
           = fnInput[k]

C11_Witness ==
  /\ fnOutput.done
  /\ fnInput = [k \in 1..32 |-> 171]
  /\ SubSeq(fnOutput.value, 1, 6) = <<"0", "x", "a", "b", "a", "b">>

-----------------------------------------------------------------------------
(* The ephemeral private key *)

\* The private keys of the key pairs generated so far, as the text they are
\* exported to.
PrivateKeyTexts == {BufferToBase64(ExportPkcs8(k)) : k \in 1..keysGenerated}

\* C14: the private key of a call's key pair never leaves the process. The
\* URL, the headers and the body of every export request, and the input of
\* its signature, are made of the arguments of the call and of its public
\* key only: the one key they carry is the call's public key, which is no
\* private key. The private key is used for one thing, the decryption of the
\* answer to that same call.
C14_PrivateKeyStaysLocal ==
  /\ \A k \in DOMAIN network :
       network[k].op = "export" =>
         LET r == network[k].request
             call == calls[network[k].call]
             signature == r.headers["privy-authorization-signature"]
         IN /\ r.url = FetchUrl(call.args.walletId)
            /\ DOMAIN r.headers = {"privy-app-id", "Content-Type",
                                   "privy-authorization-signature", "Authorization"}
            /\ r.headers["privy-app-id"] = call.args.privyAppId
            /\ r.headers["Content-Type"] = "application/json"
            /\ r.headers["Authorization"] =
                 BasicAuth(call.args.privyAppId, call.args.privyAppSecret)
            /\ signature.by = call.args.authorizationPrivateKey
            /\ signature.signed.headers = ("privy-app-id" :> call.args.privyAppId)
            /\ signature.signed.url = SignatureUrl(call.args.walletId)
            /\ signature.signed.method = "POST"
            /\ Len(r.body) = 9
            /\ \A body \in {JSONparse(r.body), signature.signed.body} :
                 /\ Len(body) = 2
                 /\ body[1] = <<"encryption_type", "HPKE">>
                 /\ body[2][1] = "recipient_public_key"
                 /\ body[2][2] = call.recipientPublicKeyBase64
                 /\ body[2][2] \notin PrivateKeyTexts
                 /\ ~ImportPkcs8(base64ToBuffer(body[2][2]).bytes).ok
  /\ \A c \in Calls :
       calls[c].decryptions > 0 =>
         /\ calls[c].decryptions = 1
         /\ RequestsOf(c) # {}
         /\ calls[c].decryptedWith = calls[c].recipientPrivateKeyBase64
         /\ calls[c].decryptedWith \in PrivateKeyTexts

C14_Witness ==
  \E c \in Calls :
    /\ calls[c].pc = "returned"
    /\ Cardinality(RequestsOf(c)) = 1
    /\ calls[c].decryptions = 1
    /\ ImportPkcs8(base64ToBuffer(calls[c].recipientPrivateKeyBase64).bytes).ok

-----------------------------------------------------------------------------
(* The private key normalizers *)

UpperHexChars ==
  <<"0","1","2","3","4","5","6","7","8","9","A","B","C","D","E","F">>
HexDigits ==
  {HexChars[k] : k \in 1..16} \cup {UpperHexChars[k] : k \in 1..16}

\* /^[0-9a-fA-F]{n}$/.test(text)
IsHex(text, n) == Len(text) = n /\ \A k \in 1..Len(text) : text[k] \in HexDigits

HexDigitValue(ch) ==
  (CHOOSE k \in 1..16 : HexChars[k] = ch \/ UpperHexChars[k] = ch) - 1

\* Buffer.from(text, "hex") of hexadecimal digits.
BufferFromHex(text) ==
  [k \in 1..(Len(text) \div 2) |->
     HexDigitValue(text[2 * k - 1]) * 16 + HexDigitValue(text[2 * k])]

\* The code unit of a character of a key text.
CharCode(ch) ==
  IF ch = "z" THEN 122
  ELSE IF \E k \in 11..16 : UpperHexChars[k] = ch THEN 55 + HexDigitValue(ch)
  ELSE IF HexDigitValue(ch) < 10 THEN 48 + HexDigitValue(ch)
  ELSE 87 + HexDigitValue(ch)

\* buffer.toString("utf8"): a byte that is the code of a digit or a letter
\* reads as that character; every other byte, alone or inside a sequence of
\* bytes, reads as a character that is no hexadecimal digit.
BufferToUtf8(bytes) ==
  [k \in 1..Len(bytes) |->
     IF \E ch \in HexDigits \cup {"z"} : CharCode(ch) = bytes[k]
     THEN CHOOSE ch \in HexDigits \cup {"z"} : CharCode(ch) = bytes[k]
     ELSE "?"]

startsWith(text, prefix) ==
  Len(prefix) <= Len(text) /\ SubSeq(text, 1, Len(prefix)) = prefix
slice(text, from) == SubSeq(text, from + 1, Len(text))
substring(text, from, to) ==
  SubSeq(text, from + 1, IF to < Len(text) THEN to ELSE Len(text))

Prefix0x == <<"0", "x">>
PrefixEnv == <<"P", "R", "I", "V", "A", "T", "E", "_", "K", "E", "Y", "=">>

decodeDoubleHexPrivateKey(encodedKey) ==
  LET cleanKey == IF startsWith(encodedKey, Prefix0x) THEN slice(encodedKey, 2)
                  ELSE encodedKey
      decoded == BufferToUtf8(BufferFromHex(cleanKey))
  IN IF IsHex(cleanKey, 64) THEN Return(Prefix0x \o cleanKey)
     ELSE IF IsHex(cleanKey, 128) /\ IsHex(decoded, 64) THEN Return(Prefix0x \o decoded)
     ELSE Throw(Error("Error",
            <<"Invalid private key format. Expected 64 or 128 hex characters.">>))

decodePrivateKey(encodedKey) ==
  LET cleanKey == IF startsWith(encodedKey, PrefixEnv)
                  THEN slice(encodedKey, Len(PrefixEnv))
                  ELSE encodedKey
  IN IF startsWith(cleanKey, Prefix0x) /\ Len(cleanKey) = 66 THEN Return(cleanKey)
     ELSE IF ~startsWith(cleanKey, Prefix0x) /\ Len(cleanKey) = 64
       THEN Return(Prefix0x \o cleanKey)
     ELSE IF startsWith(cleanKey, Prefix0x) /\ Len(cleanKey) > 66
       THEN Return(Prefix0x \o substring(cleanKey, 2, 66))
     ELSE Throw(Error("Error",
            <<"Could not decode private key - unknown or unsupported format.">>))

\* The values PRIVATE_KEY may hold: keys of 64 digits, in either case, with
\* a character that is no digit, encoded a second time, too short, too long.
SampleKey(n) == [k \in 1..64 |-> HexChars[((n * k + 3 * n) % 16) + 1]]
ToUpperCase(text) == [k \in 1..Len(text) |-> UpperHexChars[HexDigitValue(text[k]) + 1]]
DoubleEncode(text) == BufferToHex([k \in 1..Len(text) |-> CharCode(text[k])])
KeyBodies(key) ==
  {key, ToUpperCase(key), [key EXCEPT ![7] = "z"],
   DoubleEncode(key), DoubleEncode(ToUpperCase(key)),
   DoubleEncode([key EXCEPT ![7] = "z"]),
   key \o key, SubSeq(key, 1, 63), key \o <<"0">>, key \o SubSeq(key, 1, 6), <<>>}
KeyInputs ==
  {p \o b : p \in {<<>>, Prefix0x, PrefixEnv, PrefixEnv \o Prefix0x}, b \in UNION {KeyBodies(SampleKey(n)) : n \in 1..KeySamples}}

NormalizeInit ==
  /\ ExportIdle
  /\ fnInput \in KeyInputs
  /\ fnOutput = [by |-> "none", result |-> NoResult]
  /\ cred = <<>>
  /\ bet = <<>>

\* src/unnamed/part_000, line 25.
DecodeDoubleHex ==
  /\ fnOutput.by = "none"
  /\ fnOutput' = [by |-> "decodeDoubleHexPrivateKey",
                  result |-> decodeDoubleHexPrivateKey(fnInput)]
  /\ UNCHANGED <<exportVars, fnInput, cred, bet>>

\* src/create_credentials_with_clob_client.ts, line 56.
DecodeKey ==
  /\ fnOutput.by = "none"
  /\ fnOutput' = [by |-> "decodePrivateKey", result |-> decodePrivateKey(fnInput)]
  /\ UNCHANGED <<exportVars, fnInput, cred, bet>>

NormalizeNext == DecodeDoubleHex \/ DecodeKey

SpecNormalize == NormalizeInit /\ [][NormalizeNext]_vars

\* The input without the wrappers a normalizer may take off.
Unwrapped(text) ==
  LET t == IF startsWith(text, PrefixEnv) THEN slice(text, Len(PrefixEnv)) ELSE text
  IN IF startsWith(t, Prefix0x) THEN slice(t, 2) ELSE t

\* The value is 0x and 64 hexadecimal digits, and those digits are the whole
\* input or the whole input decoded once from 128 digits.
LosslessFrom(value, text) ==
  /\ Len(value) = 66
  /\ SubSeq(value, 1, 2) = Prefix0x
  /\ IsHex(SubSeq(value, 3, Len(value)), 64)
  /\ \/ Unwrapped(text) = SubSeq(value, 3, 66)
     \/ /\ IsHex(Unwrapped(text), 128)
        /\ BufferFromHex(Unwrapped(text)) = [k \in 1..64 |-> CharCode(value[k + 2])]

\* C13: whatever a normalizer returns is 0x and exactly 64 hexadecimal
\* digits obtained without loss, from a key of 64 digits or from a key of 128
\* digits decoded once; otherwise it fails. No longer input is cut short and
\* no character that is no hexadecimal digit is returned.
C13_LosslessOrFail ==
  (fnOutput.by # "none" /\ fnOutput.result.ok) =>
    LosslessFrom(fnOutput.result.value, fnInput)

\* The same of decodeDoubleHexPrivateKey alone.
DoubleHexLosslessOrFail ==
  (fnOutput.by = "decodeDoubleHexPrivateKey" /\ fnOutput.result.ok) =>
    LosslessFrom(fnOutput.result.value, fnInput)

\* decodePrivateKey cuts a key encoded twice down to its first 64 digits.
C13_Witness ==
  /\ fnOutput.by = "decodePrivateKey"
  /\ fnOutput.result.ok
  /\ fnInput = Prefix0x \o DoubleEncode(SampleKey(1))
  /\ fnOutput.result.value = Prefix0x \o SubSeq(DoubleEncode(SampleKey(1)), 1, 64)

-----------------------------------------------------------------------------
(* The credential flows: generateApiCredentials, createCredentialsWithClobClient *)

NullCreds == [isNull |-> TRUE, key |-> Undefined, secret |-> Undefined,
              passphrase |-> Undefined]
ApiCreds(apiKey) == [isNull |-> FALSE, key |-> apiKey, secret |-> "api-secret",
                     passphrase |-> "api-passphrase"]
ApiKeys == {Undefined, "", "api-key-1"}

\* Credentials taken whether or not they hold a key.
HasKeyOrNot(creds) == ~creds.isNull

\* derivedCreds && derivedCreds.key; !(!apiCredentials || !apiCredentials.key)
HasKey(creds) == ~creds.isNull /\ ~Falsy(creds.key)

Derived(creds) == [done |-> TRUE, ok |-> TRUE, value |-> creds, error |-> NoError]
DeriveThrew(error) == [done |-> TRUE, ok |-> FALSE, value |-> NullCreds, error |-> error]

\* What fetch may yield: a rejection, an answer that is not OK, an OK answer
\* that is no JSON, an OK answer with or without an apiKey.
HttpAnswers ==
  {[threw |-> TRUE, status |-> 0, text |-> "", parses |-> FALSE,
    apiKey |-> Undefined]}
    \cup {[threw |-> FALSE, status |-> st, text |-> t, parses |-> FALSE,
           apiKey |-> Undefined] : st \in RejectStatuses, t \in RejectBodies}
    \cup {[threw |-> FALSE, status |-> 200, text |-> "<html>", parses |-> FALSE,
           apiKey |-> Undefined]}
    \cup {[threw |-> FALSE, status |-> 200, text |-> "{...}", parses |-> TRUE,
           apiKey |-> k] : k \in ApiKeys}

\* The reading of an answer: lines 148-166, and 83-101 with the other word.
ReadCredentials(answer, verb) ==
  IF answer.threw THEN DeriveThrew(Error("TypeError", <<"fetch failed">>))
  ELSE IF ~ResponseOk(answer)
    THEN DeriveThrew(Error("Error", <<"Failed to ", verb, " API credentials: ",
                                      answer.status, " - ", answer.text>>))
  ELSE IF ~answer.parses THEN DeriveThrew(Error("SyntaxError", <<"response.json">>))
  ELSE Derived(ApiCreds(answer.apiKey))

\* What a method of the client library may yield: an error, null,
\* credentials with or without a key.
ClientAnswers ==
  {DeriveThrew(Error("Error", <<"clob-client">>)), Derived(NullCreds)}
    \cup {Derived(ApiCreds(k)) : k \in ApiKeys}

NoEnvKey == [defined |-> FALSE, text |-> <<>>]
EnvKeys ==
  {NoEnvKey}
    \cup {[defined |-> TRUE, text |-> t] :
            t \in {<<>>, SampleKey(1), Prefix0x \o SampleKey(2),
                   PrefixEnv \o SampleKey(3), [SampleKey(1) EXCEPT ![7] = "z"],
                   SubSeq(SampleKey(1), 1, 63)}}

\* new ethers.Wallet(privateKey) takes 0x and 64 hexadecimal digits.
WalletAccepts(privateKey) ==
  startsWith(privateKey, Prefix0x) /\ IsHex(slice(privateKey, 2), 64)

CredentialRequest(op, method, url) == [op |-> op, method |-> method, url |-> url]

CredInit ==
  /\ ExportIdle
  /\ fnInput = <<>>
  /\ fnOutput = <<>>
  /\ bet = <<>>
  /\ \E flow \in {"generate", "clob"}, w \in {"", "w_123"}, m \in {"", "0xMaker"},
        pk \in EnvKeys :
       /\ flow = "generate" => pk = NoEnvKey
       /\ flow = "clob" => (w = "" /\ m = "")
       /\ cred = [flow |-> flow, pc |-> "start", walletId |-> w, makerAddress |-> m,
                  encodedPrivateKey |-> pk, deriveTried |-> FALSE,
                  derived |-> [done |-> FALSE, ok |-> FALSE, value |-> NullCreds,
                              error |-> NoError], apiCredentials |-> NullCreds,
                  error |-> NoError, exitCode |-> -1, log |-> <<>>]

CredStep(pc, log) ==
  /\ cred' = [cred EXCEPT !.pc = pc, !.log = log]
  /\ UNCHANGED <<exportVars, fnInput, fnOutput, bet>>

\* A throw out of generateApiCredentials, through the catch of line 102.
CredThrows(error) ==
  /\ cred' = [cred EXCEPT !.pc = "thrown", !.error = error]
  /\ UNCHANGED <<exportVars, fnInput, fnOutput, bet>>

\* The catch of line 123: the error is printed and the process exits.
CredExits(error) ==
  /\ cred' = [cred EXCEPT !.pc = "exited", !.error = error, !.exitCode = 1]
  /\ UNCHANGED <<exportVars, fnInput, fnOutput, bet>>

\* The end of a derive attempt: with a key the flow is over, without one or
\* with an error it goes on to the creation.
DeriveSettles(outcome) ==
  /\ cred' = [cred EXCEPT
       !.derived = outcome,
       !.pc = IF outcome.ok /\ HasKey(outcome.value) THEN "returned" ELSE "fallback",
       !.apiCredentials = IF outcome.ok THEN outcome.value ELSE @]
  /\ UNCHANGED <<exportVars, fnInput, fnOutput, bet>>

GenerateRejectsArguments ==
  /\ cred.flow = "generate" /\ cred.pc = "start"
  /\ Falsy(cred.walletId) \/ Falsy(cred.makerAddress)
  /\ cred' = [cred EXCEPT !.pc = "thrown",
                          !.error = Error("Error", <<"walletId and makerAddress are required">>)]
  /\ UNCHANGED <<exportVars, fnInput, fnOutput, bet>>

\* Line 55, and the signature is one.
GenerateSigns ==
  /\ cred.flow = "generate" /\ cred.pc = "start"
  /\ ~(Falsy(cred.walletId) \/ Falsy(cred.makerAddress))
  /\ CredStep("signed", Append(cred.log, CredentialRequest("sign", "", "signWithServerWallet")))

\* Line 55 throws, or yields nothing and line 57 throws.
GenerateSignFails ==
  /\ cred.flow = "generate" /\ cred.pc = "start"
  /\ ~(Falsy(cred.walletId) \/ Falsy(cred.makerAddress))
  /\ \/ CredThrows(Error("Error", <<"signWithServerWallet">>))
     \/ CredThrows(Error("Error", <<"Failed to sign API key creation request">>))

\* Lines 63 and 133.
DeriveSigns ==
  /\ cred.flow = "generate" /\ cred.pc = "signed"
  /\ cred' = [cred EXCEPT !.pc = "deriveSigned", !.deriveTried = TRUE,
                          !.log = Append(@, CredentialRequest("sign", "", "signWithServerWallet"))]
  /\ UNCHANGED <<exportVars, fnInput, fnOutput, bet>>

\* Line 133 throws, or yields nothing and line 135 throws: caught at line 67.
DeriveSignFails ==
  /\ cred.flow = "generate" /\ cred.pc = "signed"
  /\ \E e \in {Error("Error", <<"signWithServerWallet">>),
               Error("Error", <<"Failed to sign API key derivation request">>)} :
       cred' = [cred EXCEPT !.pc = "fallback", !.deriveTried = TRUE,
                            !.derived = DeriveThrew(e)]
  /\ UNCHANGED <<exportVars, fnInput, fnOutput, bet>>

\* Line 138.
DeriveRequest ==
  /\ cred.flow = "generate" /\ cred.pc = "deriveSigned"
  /\ CredStep("deriveSent",
       Append(cred.log, CredentialRequest("derive", "GET",
                          "https://clob.polymarket.com/auth/derive-api-key")))

\* Lines 148-166, then 64-69.
DeriveResponse ==
  /\ cred.flow = "generate" /\ cred.pc = "deriveSent"
  /\ \E answer \in HttpAnswers : DeriveSettles(ReadCredentials(answer, "derive"))

\* Line 72.
CreateRequest ==
  /\ cred.flow = "generate" /\ cred.pc = "fallback"
  /\ CredStep("createSent",
       Append(cred.log, CredentialRequest("create", "POST",
                          "https://clob.polymarket.com/auth/api-key")))

\* Lines 83-105.
CreateResponse ==
  /\ cred.flow = "generate" /\ cred.pc = "createSent"
  /\ \E answer \in HttpAnswers :
       LET created == ReadCredentials(answer, "generate")
       IN IF created.ok
          THEN /\ cred' = [cred EXCEPT !.pc = "returned", !.apiCredentials = created.value]
               /\ UNCHANGED <<exportVars, fnInput, fnOutput, bet>>
          ELSE CredThrows(created.error)

\* Lines 51-54.
ClobNoPrivateKey ==
  /\ cred.flow = "clob" /\ cred.pc = "start"
  /\ ~cred.encodedPrivateKey.defined \/ cred.encodedPrivateKey.text = <<>>
  /\ CredExits(Error("Error", <<"PRIVATE_KEY not found in .env file">>))

\* Lines 56-57 throw.
ClobKeyRejected ==
  /\ cred.flow = "clob" /\ cred.pc = "start"
  /\ cred.encodedPrivateKey.defined /\ cred.encodedPrivateKey.text # <<>>
  /\ LET privateKey == decodePrivateKey(cred.encodedPrivateKey.text)
     IN \/ /\ ~privateKey.ok
           /\ CredExits(privateKey.error)
        \/ /\ privateKey.ok /\ ~WalletAccepts(privateKey.value)
           /\ CredExits(Error("TypeError", <<"invalid private key">>))

\* Lines 56-76.
ClobClientBuilt ==
  /\ cred.flow = "clob" /\ cred.pc = "start"
  /\ cred.encodedPrivateKey.defined /\ cred.encodedPrivateKey.text # <<>>
  /\ LET privateKey == decodePrivateKey(cred.encodedPrivateKey.text)
     IN privateKey.ok /\ WalletAccepts(privateKey.value)
  /\ CredStep("client", cred.log)

\* Line 84: the call.
ClobDerive ==
  /\ cred.flow = "clob" /\ cred.pc = "client"
  /\ cred' = [cred EXCEPT !.pc = "deriveSent", !.deriveTried = TRUE,
                          !.log = Append(@, CredentialRequest("derive", "", "deriveApiKey"))]
  /\ UNCHANGED <<exportVars, fnInput, fnOutput, bet>>

\* Lines 84-92: what the call yields.
ClobDeriveSettles ==
  /\ cred.flow = "clob" /\ cred.pc = "deriveSent"
  /\ \E outcome \in ClientAnswers : DeriveSettles(outcome)

\* Line 96: the call.
ClobCreate ==
  /\ cred.flow = "clob" /\ cred.pc = "fallback"
  /\ CredStep("createSent", Append(cred.log, CredentialRequest("create", "", "createApiKey")))

\* Lines 96-106: what the call yields.
ClobCreateSettles ==
  /\ cred.flow = "clob" /\ cred.pc = "createSent"
  /\ \E outcome \in ClientAnswers :
       IF ~outcome.ok THEN CredExits(outcome.error)
       ELSE IF outcome.value.isNull
         THEN CredExits(Error("Error", <<"Failed to obtain API credentials.">>))
       ELSE /\ cred' = [cred EXCEPT !.pc = "returned", !.apiCredentials = outcome.value]
            /\ UNCHANGED <<exportVars, fnInput, fnOutput, bet>>

CredNext ==
  \/ GenerateRejectsArguments
  \/ GenerateSigns
  \/ GenerateSignFails
  \/ DeriveSigns
  \/ DeriveSignFails
  \/ DeriveRequest
  \/ DeriveResponse
  \/ CreateRequest
  \/ CreateResponse
  \/ ClobNoPrivateKey
  \/ ClobKeyRejected
  \/ ClobClientBuilt
  \/ ClobDerive
  \/ ClobDeriveSettles
  \/ ClobCreate
  \/ ClobCreateSettles

SpecCredentials == CredInit /\ [][CredNext]_vars

CreateRequests == {k \in DOMAIN cred.log : cred.log[k].op = "create"}
DeriveRequests == {k \in DOMAIN cred.log : cred.log[k].op = "derive"}
DeriveYieldedKey ==
  /\ cred.derived.done /\ cred.derived.ok
  /\ ~cred.derived.value.isNull
  /\ cred.derived.value.key \notin {Undefined, ""}
CredentialFlowOver == cred.pc \in {"returned", "thrown", "exited"}

\* C12: in both credential flows a create request is issued if and only if
\* the derive attempt before it did not yield credentials with a key. It is
\* issued at most once, after the derive attempt has ended in an error, in an
\* answer that is not OK or in a result without a key; once the derive
\* attempt has so ended the flow does not end without it; and when the derive
\* attempt yields a key no create request is ever sent.
C12_CreateIffDeriveFailed ==
  /\ Cardinality(CreateRequests) <= 1
  /\ CreateRequests # {} =>
       /\ cred.deriveTried /\ cred.derived.done /\ ~DeriveYieldedKey
       /\ \A k \in CreateRequests, j \in DeriveRequests : j < k
  /\ DeriveYieldedKey =>
       /\ CreateRequests = {}
       /\ cred.pc = "returned"
       /\ cred.apiCredentials = cred.derived.value
  /\ (cred.derived.done /\ ~DeriveYieldedKey /\ CredentialFlowOver) =>
       CreateRequests # {}
  /\ ~cred.deriveTried => CreateRequests = {}

C12_Witness ==
  /\ cred.flow = "generate"
  /\ cred.pc = "returned"
  /\ cred.derived.ok /\ cred.derived.value.key = ""
  /\ Cardinality(CreateRequests) = 1
  /\ cred.apiCredentials.key = "api-key-1"

-----------------------------------------------------------------------------
(* placeBetWithClobClient: src/place_bet.ts ("privy"), src/unnamed/part_000 ("wallet") *)

\* process.env.TARGET_MARKET_ID || "0x2b24..."
TargetMarketId(value) == IF Falsy(value)
  THEN "0x2b247ca3101b16d95afcb5117a03a126c6a767d3131814f0647fe61442981622"
  ELSE value

\* Lines 25-27 of place_bet.ts.
ValidatePrivyEnv(wallet, maker) ==
  IF Falsy(wallet) \/ Falsy(maker)
  THEN Throw(Error("Error",
         <<"Missing required environment variables: WALLET_ID and MAKER_ADDRESS">>))
  ELSE Return(<<>>)

\* Lines 25-45 of part_000.
ValidateWalletEnv(encoded, maker) ==
  LET privateKey ==
        decodeDoubleHexPrivateKey(IF encoded.defined THEN encoded.text ELSE <<>>)
  IN IF ~privateKey.ok THEN privateKey
     ELSE IF privateKey.value = <<>> \/ Falsy(maker)
       THEN Throw(Error("Error",
              <<"Missing required environment variables: PRIVATE_KEY and MAKER_ADDRESS">>))
     ELSE IF ~startsWith(privateKey.value, Prefix0x) \/ Len(privateKey.value) # 66
       THEN Throw(Error("Error",
              <<"Invalid private key format. Expected 66 characters (including 0x), got ",
                Len(privateKey.value)>>))
     ELSE IF ~IsHex(slice(privateKey.value, 2), 64)
       THEN Throw(Error("Error", <<"Invalid private key: not a valid hex string">>))
     ELSE privateKey

ValidateEnv(b) ==
  IF b.variant = "privy" THEN ValidatePrivyEnv(b.walletId, b.makerAddress)
  ELSE ValidateWalletEnv(b.encodedPrivateKey, b.makerAddress)

\* What getMarket may yield: an error, nothing, a market.
MarketAnswers ==
  {[threw |-> TRUE, defined |-> FALSE, accepting_orders |-> FALSE],
   [threw |-> FALSE, defined |-> FALSE, accepting_orders |-> FALSE],
   [threw |-> FALSE, defined |-> TRUE, accepting_orders |-> FALSE],
   [threw |-> FALSE, defined |-> TRUE, accepting_orders |-> TRUE]}

\* What getMarkets may yield: an error, nothing, markets of which so many
\* are active and accepting orders.
MarketsAnswers ==
  {[threw |-> TRUE, defined |-> FALSE, active |-> 0],
   [threw |-> FALSE, defined |-> FALSE, active |-> 0],
   [threw |-> FALSE, defined |-> TRUE, active |-> 0],
   [threw |-> FALSE, defined |-> TRUE, active |-> 1]}

\* What createAndPostOrder may yield: an error, nothing, a result with or
\* without an orderId.
OrderAnswers ==
  {[threw |-> TRUE, defined |-> FALSE, orderId |-> Undefined],
   [threw |-> FALSE, defined |-> FALSE, orderId |-> Undefined],
   [threw |-> FALSE, defined |-> TRUE, orderId |-> Undefined],
   [threw |-> FALSE, defined |-> TRUE, orderId |-> "order-1"]}

Answered(answer) == [done |-> TRUE, threw |-> answer.threw, defined |-> answer.defined]

orderParams(b) ==
  [tokenID |-> "60487116984468020978247225474488676749601001829886755968952521846780452448915",
   size |-> IF b.variant = "privy" THEN 3 ELSE 5,
   side |-> "BUY", orderType |-> "GTC", maker |-> b.makerAddress]

ClientCall(method, argument) == [method |-> method, argument |-> argument]

\* The market found closed ends the function.
AfterMarketClosedStops(variant, answer) ==
  IF ~answer.threw /\ answer.defined /\ ~answer.accepting_orders THEN "completed"
  ELSE "order"

\* Where the function goes from the answer of getMarket: lines 78-86 of
\* place_bet.ts, 73-98 of part_000.
AfterMarket(variant, answer) ==
  IF variant = "wallet" /\ ~answer.threw /\ answer.defined /\ ~answer.accepting_orders
  THEN "markets"
  ELSE "order"

BetInit ==
  /\ ExportIdle
  /\ fnInput = <<>>
  /\ fnOutput = <<>>
  /\ cred = <<>>
  /\ \E variant \in {"privy", "wallet"}, w \in {Undefined, "w_123"},
        m \in {Undefined, "", "0xMaker"}, t \in {Undefined, "0xMarket"},
        pk \in EnvKeys \cup {[defined |-> TRUE, text |-> DoubleEncode(SampleKey(2))]} :
       /\ variant = "privy" => pk = NoEnvKey
       /\ variant = "wallet" => w = Undefined
       /\ bet = [variant |-> variant, pc |-> "start", walletId |-> w,
                 makerAddress |-> m, targetMarketId |-> TargetMarketId(t),
                 encodedPrivateKey |-> pk, clientBuilt |-> FALSE,
                 market |-> [done |-> FALSE, threw |-> FALSE, defined |-> FALSE],
                 order |-> [done |-> FALSE, threw |-> FALSE, defined |-> FALSE],
                 clientCalls |-> <<>>, marketErrors |-> 0, logged |-> <<>>,
                 rejection |-> NoError]

\* The catch at the end of the function: the error is printed, nothing is
\* thrown.
BetCatches(error) ==
  /\ bet' = [bet EXCEPT !.pc = "completed", !.logged = Append(@, error)]
  /\ UNCHANGED <<exportVars, fnInput, fnOutput, cred>>

\* A throw before the try: the promise is rejected.
BetValidationFails ==
  /\ bet.pc = "start"
  /\ ~ValidateEnv(bet).ok
  /\ bet' = [bet EXCEPT !.pc = "rejected", !.rejection = ValidateEnv(bet).error]
  /\ UNCHANGED <<exportVars, fnInput, fnOutput, cred>>

BetValidated ==
  /\ bet.pc = "start"
  /\ ValidateEnv(bet).ok
  /\ bet' = [bet EXCEPT !.pc = "try"]
  /\ UNCHANGED <<exportVars, fnInput, fnOutput, cred>>

\* The signer or the wallet, and the client.
BetClientBuilt ==
  /\ bet.pc = "try"
  /\ bet' = [bet EXCEPT !.pc = "client", !.clientBuilt = TRUE]
  /\ UNCHANGED <<exportVars, fnInput, fnOutput, cred>>

\* A constructor throws.
BetClientFails ==
  /\ bet.pc = "try"
  /\ BetCatches(Error("Error", <<"constructor">>))

BetGetMarket ==
  /\ bet.pc = "client"
  /\ bet' = [bet EXCEPT !.pc = "market",
                        !.clientCalls = Append(@, ClientCall("getMarket", bet.targetMarketId))]
  /\ UNCHANGED <<exportVars, fnInput, fnOutput, cred>>

\* The answer of getMarket: an error, and the TypeError of reading a field
\* of nothing, are caught by the inner catch.
BetMarketSettles ==
  /\ bet.pc = "market"
  /\ \E answer \in MarketAnswers :
       LET next == AfterMarket(bet.variant, answer)
       IN bet' = [bet EXCEPT
            !.pc = next,
            !.market = Answered(answer),
            !.marketErrors = IF answer.threw \/ ~answer.defined THEN @ + 1 ELSE @,
            !.clientCalls = IF next = "markets"
                            THEN Append(@, ClientCall("getMarkets", "")) ELSE @]
  /\ UNCHANGED <<exportVars, fnInput, fnOutput, cred>>

\* Lines 85-93 of part_000.
BetMarketsSettle ==
  /\ bet.pc = "markets"
  /\ \E answer \in MarketsAnswers :
       bet' = [bet EXCEPT
         !.pc = "order",
         !.marketErrors = IF answer.threw \/ ~answer.defined THEN @ + 1 ELSE @]
  /\ UNCHANGED <<exportVars, fnInput, fnOutput, cred>>

BetPostOrder ==
  /\ bet.pc = "order"
  /\ bet' = [bet EXCEPT
       !.pc = "posted",
       !.clientCalls = Append(@, ClientCall("createAndPostOrder", orderParams(bet)))]
  /\ UNCHANGED <<exportVars, fnInput, fnOutput, cred>>

\* The answer of createAndPostOrder.
BetOrderSettles ==
  /\ bet.pc = "posted"
  /\ \E answer \in OrderAnswers :
       IF answer.threw
       THEN /\ bet' = [bet EXCEPT !.pc = "completed", !.order = Answered(answer),
                                  !.logged = Append(@, Error("Error", <<"createAndPostOrder">>))]
            /\ UNCHANGED <<exportVars, fnInput, fnOutput, cred>>
       ELSE IF bet.variant = "privy"
         THEN /\ bet' = [bet EXCEPT !.pc = "completed", !.order = Answered(answer)]
              /\ UNCHANGED <<exportVars, fnInput, fnOutput, cred>>
       ELSE IF ~answer.defined
         THEN /\ bet' = [bet EXCEPT !.pc = "completed", !.order = Answered(answer),
                                    !.logged = Append(@, Error("TypeError", <<"orderResult.orderId">>))]
              /\ UNCHANGED <<exportVars, fnInput, fnOutput, cred>>
       ELSE IF Falsy(answer.orderId)
         THEN /\ bet' = [bet EXCEPT !.pc = "completed", !.order = Answered(answer)]
              /\ UNCHANGED <<exportVars, fnInput, fnOutput, cred>>
       ELSE /\ bet' = [bet EXCEPT !.pc = "status", !.order = Answered(answer),
                                  !.clientCalls = Append(@, ClientCall("getOrder", answer.orderId))]
            /\ UNCHANGED <<exportVars, fnInput, fnOutput, cred>>

\* Lines 132-133 of part_000.
BetOrderStatusSettles ==
  /\ bet.pc = "status"
  /\ \/ /\ bet' = [bet EXCEPT !.pc = "completed"]
        /\ UNCHANGED <<exportVars, fnInput, fnOutput, cred>>
     \/ BetCatches(Error("Error", <<"getOrder">>))

BetNext ==
  \/ BetValidationFails
  \/ BetValidated
  \/ BetClientBuilt
  \/ BetClientFails
  \/ BetGetMarket
  \/ BetMarketSettles
  \/ BetMarketsSettle
  \/ BetPostOrder
  \/ BetOrderSettles
  \/ BetOrderStatusSettles

SpecPlaceBet == BetInit /\ [][BetNext]_vars

OrdersPosted ==
  {k \in DOMAIN bet.clientCalls : bet.clientCalls[k].method = "createAndPostOrder"}

\* C15: in both variants of placeBetWithClobClient, once the environment
\* has passed validation and the client is built, createAndPostOrder is
\* called exactly once whatever the market check gave, an error of the lookup
\* and a market not accepting orders included, and never before or more than
\* once; an order that fails is caught and printed, and the function ends
\* without passing any error on.
C15_OrderPlacedOnceAndErrorsCaught ==
  /\ Cardinality(OrdersPosted) <= 1
  /\ ~bet.clientBuilt => OrdersPosted = {}
  /\ OrdersPosted # {} => bet.market.done
  /\ (bet.clientBuilt /\ bet.pc \notin {"client", "market", "markets", "order"}) =>
       Cardinality(OrdersPosted) = 1
  /\ bet.clientBuilt => (bet.pc # "rejected" /\ bet.rejection = NoError)
  /\ (bet.order.done /\ bet.order.threw) =>
       /\ bet.pc = "completed"
       /\ bet.logged = <<Error("Error", <<"createAndPostOrder">>)>>

C15_Witness ==
  /\ bet.variant = "wallet"
  /\ bet.pc = "completed"
  /\ bet.market.done /\ bet.market.defined /\ ~bet.market.threw
  /\ \E k \in DOMAIN bet.clientCalls : bet.clientCalls[k].method = "getMarkets"
  /\ Cardinality(OrdersPosted) = 1
  /\ bet.order.threw
  /\ Len(bet.logged) = 1

=============================================================================
